---- MODULE Spec2Model ----
(***************************************************************************)
(* Model of spss2excel_streamlit.py: the label resolver process_sav, the   *)
(* spreadsheet encoder to_excel_bytes and the Streamlit script main.       *)
(*                                                                         *)
(* Python values are tagged records [t, v]: t is the Python type and v a   *)
(* sequence of naturals (the code points of a str, the bytes of a bytes    *)
(* object, the one-element sequence holding a number, the elements of a    *)
(* list).  Python lists and tuples of values are TLA+ sequences; Python    *)
(* index i is TLA+ index i+1.  A Python dict is the sequence of its        *)
(* (key, value) pairs in insertion order.                                  *)
(***************************************************************************)
EXTENDS Integers, Sequences, FiniteSets, TLC

VARIABLES
    header, varLabels, valueLabels, records,   \* what SavReader hands to process_sav
    reader_ok,                                 \* FALSE when SavReader raises on the file
    rows, headers, value_labels_dict,          \* what process_sav returned
    sheet_name, title_raises,                  \* to_excel_bytes argument; the openpyxl build
    ws_title, ws, excel_bytes,                 \* the worksheet and the saved buffer
    lang, lang_toggle, show_preview, uploaded, \* session state and widget values
    page, pc,                                  \* elements emitted by the run; position
    runs                                       \* history: the last two passes over lines 161-171

vars == << header, varLabels, valueLabels, records, reader_ok,
           rows, headers, value_labels_dict,
           sheet_name, title_raises, ws_title, ws, excel_bytes,
           lang, lang_toggle, show_preview, uploaded, page, pc, runs >>

readerVars  == << header, varLabels, valueLabels, records, reader_ok >>
resultVars  == << rows, headers, value_labels_dict >>
encoderVars == << sheet_name, ws_title, ws, excel_bytes >>
uiVars      == << lang, lang_toggle, show_preview, uploaded, page, runs >>

(***************************************************************************)
(* Bounds of the explored inputs.                                          *)
(***************************************************************************)
MaxCols == 2
MaxRecords == 3

(***************************************************************************)
(* Python values.                                                          *)
(***************************************************************************)
PyBytes(s) == [t |-> "bytes", v |-> s]
PyStr(s)   == [t |-> "str",   v |-> s]
PyInt(n)   == [t |-> "int",   v |-> <<n>>]
PyFloat(n) == [t |-> "float", v |-> <<n>>]
PyList(s)  == [t |-> "list",  v |-> s]
PyNone     == [t |-> "none",  v |-> <<>>]

IsNum(x) == x.t \in {"int", "float"}

\* PyEq with a fault: equality that also requires the two types to agree.
PyEqSameType(a, b) == a = b

\* Python ==, which is what dict membership uses (with a consistent hash):
\* an int and a float are equal when their numeric values are, a bytes
\* object and a str never are.
PyEq(a, b) ==
    IF IsNum(a) /\ IsNum(b) THEN a.v = b.v ELSE a = b

\* dict operations on a sequence of <<key, value>> pairs
DictHas(d, k) == \E i \in 1..Len(d) : PyEq(d[i][1], k)

DictIndex(d, k) == CHOOSE i \in 1..Len(d) : PyEq(d[i][1], k)

DictGet(d, k, default) ==
    IF DictHas(d, k) THEN d[DictIndex(d, k)][2] ELSE default

\* d[k] = val: an existing key keeps its place (and its key object)
DictSet(d, k, val) ==
    IF DictHas(d, k)
    THEN [d EXCEPT ![DictIndex(d, k)] = << d[DictIndex(d, k)][1], val >>]
    ELSE Append(d, << k, val >>)

(***************************************************************************)
(* bytes.decode("utf-8", errors="ignore") for one- and two-byte sequences: *)
(* an ASCII byte is its code point, a lead byte C2..DF followed by a       *)
(* continuation byte 80..BF is one code point, any other byte is dropped.  *)
(***************************************************************************)
RECURSIVE Utf8Ignore(_)
Utf8Ignore(b) ==
    IF b = << >> THEN << >>
    ELSE IF b[1] < 128 THEN << b[1] >> \o Utf8Ignore(Tail(b))
    ELSE IF /\ b[1] >= 194 /\ b[1] <= 223 /\ Len(b) >= 2
            /\ b[2] >= 128 /\ b[2] <= 191
         THEN << (b[1] - 192) * 64 + (b[2] - 128) >> \o Utf8Ignore(Tail(Tail(b)))
    ELSE Utf8Ignore(Tail(b))

decode_bytes(x) ==
    IF x.t = "bytes" THEN PyStr(Utf8Ignore(x.v)) ELSE x

(***************************************************************************)
(* str.strip(): leading and trailing whitespace removed.                   *)
(***************************************************************************)
IsSpace(c) == c \in {9, 10, 11, 12, 13, 28, 29, 30, 31, 32, 133, 160}

RECURSIVE LStrip(_)
LStrip(s) ==
    IF s # << >> /\ IsSpace(s[1]) THEN LStrip(Tail(s)) ELSE s

RECURSIVE RStrip(_)
RStrip(s) ==
    IF s # << >> /\ IsSpace(s[Len(s)]) THEN RStrip(SubSeq(s, 1, Len(s) - 1)) ELSE s

\* Strip with a fault: the label is used untrimmed.
StripNothing(x) == x

Strip(x) == PyStr(RStrip(LStrip(x.v)))

(***************************************************************************)
(* process_sav                                                             *)
(***************************************************************************)
headers_dict(hdr) == [i \in 1..Len(hdr) |-> decode_bytes(hdr[i])]

RECURSIVE var_labels_dict(_)
var_labels_dict(vl) ==
    IF vl = << >> THEN << >>
    ELSE LET n    == Len(vl)
             rest == var_labels_dict(SubSeq(vl, 1, n - 1))
         IN DictSet(rest, decode_bytes(vl[n][1]), decode_bytes(vl[n][2]))

RECURSIVE converted(_)
converted(val_dict) ==
    IF val_dict = << >> THEN << >>
    ELSE LET n    == Len(val_dict)
             rest == converted(SubSeq(val_dict, 1, n - 1))
         IN DictSet(rest, val_dict[n][1], decode_bytes(val_dict[n][2]))

RECURSIVE value_labels(_)
value_labels(vl) ==
    IF vl = << >> THEN << >>
    ELSE LET n    == Len(vl)
             rest == value_labels(SubSeq(vl, 1, n - 1))
         IN DictSet(rest, decode_bytes(vl[n][1]), converted(vl[n][2]))

\* f"{var_name} ({label})"
NameLabel(var_name, label) ==
    PyStr(var_name.v \o << 32, 40 >> \o label.v \o << 41 >>)

FinalHeader(hdr, vl, i) ==
    LET var_name == headers_dict(hdr)[i]
        label    == Strip(DictGet(var_labels_dict(vl), var_name, PyStr(<< >>)))
    IN IF label.v # << >> THEN NameLabel(var_name, label) ELSE var_name

final_headers(hdr, vl) ==
    [i \in 1..Len(headers_dict(hdr)) |-> FinalHeader(hdr, vl, i)]

\* ResolveCell with a fault: a code without a label becomes an empty cell.
ResolveCellDropMiss(hdr, vlab, col_idx, val) ==
    LET var_name == headers_dict(hdr)[col_idx]
        vld      == value_labels(vlab)
    IN IF DictHas(vld, var_name) /\ DictHas(DictGet(vld, var_name, << >>), val)
       THEN DictGet(DictGet(vld, var_name, << >>), val, PyNone)
       ELSE PyNone

ResolveCell(hdr, vlab, col_idx, val) ==
    LET var_name       == headers_dict(hdr)[col_idx]
        vld            == value_labels(vlab)
        has_table      == DictHas(vld, var_name)
        labels_for_var == DictGet(vld, var_name, << >>)
    IN IF has_table /\ DictHas(labels_for_var, val)
       THEN DictGet(labels_for_var, val, PyNone)
       ELSE decode_bytes(val)

\* ResolveRow with a fault: the cells are emitted right to left.
ResolveRowReversed(hdr, vlab, record) ==
    [col_idx \in 1..Len(record) |->
        ResolveCell(hdr, vlab, Len(record) + 1 - col_idx, record[Len(record) + 1 - col_idx])]

ResolveRow(hdr, vlab, record) ==
    [col_idx \in 1..Len(record) |-> ResolveCell(hdr, vlab, col_idx, record[col_idx])]

\* ResolveRows with a fault: no record is skipped.
ResolveRowsKeepFirst(hdr, vlab, recs) ==
    [j \in 1..Len(recs) |-> ResolveRow(hdr, vlab, recs[j])]

\* records[idx] with idx = 0 is skipped; the others are resolved in order
ResolveRows(hdr, vlab, recs) ==
    [j \in 1..(Len(recs) - 1) |-> ResolveRow(hdr, vlab, recs[j + 1])]

\* lines 83-134 raise instead of returning: SavReader rejects the file, a
\* record is wider than the header (headers_dict[col_idx] is a KeyError), or
\* a variable label is not text (it has no strip)
process_sav_raises(ok, hdr, vl, vlab, recs) ==
    \/ ~ok
    \/ \E j \in 2..Len(recs) : Len(recs[j]) > Len(hdr)
    \/ \E i \in 1..Len(hdr) :
           DictGet(var_labels_dict(vl), headers_dict(hdr)[i], PyStr(<< >>)).t # "str"

(***************************************************************************)
(* What SavReader can hand over: names, labels and string cells as bytes   *)
(* objects or text, numeric codes as floats or ints.  Text below: A = 65,  *)
(* B = 66, L = 76, M = 77, F = 70, X = 88, Y = 89, x = 120, y = 121,       *)
(* space = 32, C3 A9 (195 169) is the UTF-8 encoding of U+00E9, and FF     *)
(* (255) is a byte that is never valid UTF-8.                              *)
(***************************************************************************)
Names == { PyBytes(<< 65 >>), PyBytes(<< 66 >>), PyBytes(<< 65, 255 >>) }

Headers ==
    UNION { { h \in [1..n -> Names] : \A i, k \in 1..n : i # k => h[i] # h[k] }
            : n \in 1..MaxCols }

LabelOpts ==
    { PyBytes(<< >>), PyBytes(<< 32 >>), PyBytes(<< 76 >>), PyBytes(<< 32, 76, 32 >>),
      PyBytes(<< 195, 169 >>), PyBytes(<< 76, 255 >>), PyStr(<< 76, 32, 76 >>) }

TableOpts ==
    { << >>,
      << << PyInt(1), PyBytes(<< 77 >>) >>, << PyInt(2), PyBytes(<< 70, 255 >>) >> >>,
      << << PyFloat(1), PyBytes(<< 77 >>) >> >>,
      << << PyBytes(<< 120 >>), PyBytes(<< 88 >>) >>, << PyStr(<< 121 >>), PyStr(<< 89 >>) >> >> }

CellSeq ==
    << PyFloat(1), PyBytes(<< 120 >>), PyInt(2), PyStr(<< 120 >>), PyFloat(3),
       PyBytes(<< 121, 255 >>), PyBytes(<< 121 >>) >>

\* the record of n cells that starts at CellSeq[k] and goes round CellSeq
RecordOpt(k, n) == [i \in 1..n |-> CellSeq[((k + i - 2) % Len(CellSeq)) + 1]]

RecordOpts(n) == { RecordOpt(k, n) : k \in 1..Len(CellSeq) }

FewRecordOpts(n) == { RecordOpt(k, n) : k \in {1, 2, 6, 7} }

\* the dict with one entry per column in present, in column order
RECURSIVE ReaderDict(_, _, _)
ReaderDict(hdr, present, choice) ==
    IF hdr = << >> THEN << >>
    ELSE LET n    == Len(hdr)
             rest == ReaderDict(SubSeq(hdr, 1, n - 1), present, SubSeq(choice, 1, n - 1))
         IN IF n \in present THEN Append(rest, << hdr[n], choice[n] >>) ELSE rest

\* the first record SavReader returns with returnHeader=True: the names
HeaderEcho(hdr) == hdr

\* inputs that vary the variable labels
ReaderLabels ==
    /\ reader_ok = TRUE
    /\ header \in Headers
    /\ \E present \in SUBSET (1..Len(header)), choice \in [1..Len(header) -> LabelOpts] :
           varLabels = ReaderDict(header, present, choice)
    /\ valueLabels = << >>
    /\ records \in { << HeaderEcho(header), r >> : r \in RecordOpts(Len(header)) }

\* inputs that vary the value-label tables
ReaderTables ==
    /\ reader_ok = TRUE
    /\ header \in Headers
    /\ varLabels = << >>
    /\ \E present \in SUBSET (1..Len(header)), choice \in [1..Len(header) -> TableOpts] :
           valueLabels = ReaderDict(header, present, choice)
    /\ \E first \in {HeaderEcho(header)} \cup FewRecordOpts(Len(header)) :
           records \in { << first, r >> : r \in RecordOpts(Len(header)) }

\* inputs that vary the number of records, their content and their order
ReaderRecords ==
    /\ reader_ok = TRUE
    /\ header \in Headers
    /\ varLabels = << >>
    /\ \E tbl \in TableOpts : valueLabels = << << header[1], tbl >> >>
    /\ \E n \in 1..MaxRecords : records \in [1..n -> FewRecordOpts(Len(header))]

\* a file SavReader rejects: nothing is handed over
ReaderRejects ==
    /\ reader_ok = FALSE
    /\ header = << >>
    /\ varLabels = << >>
    /\ valueLabels = << >>
    /\ records = << >>

InitEncoderIdle ==
    /\ sheet_name = PyNone
    /\ title_raises = FALSE
    /\ ws_title = PyNone
    /\ ws = << >>
    /\ excel_bytes = [saved |-> FALSE, title |-> PyNone, sheet |-> << >>]

InitUiIdle ==
    /\ lang = "unset"
    /\ lang_toggle = FALSE
    /\ show_preview = TRUE
    /\ uploaded = 0
    /\ page = {}
    /\ runs = << >>

Init ==
    /\ \/ ReaderLabels
       \/ ReaderTables
       \/ ReaderRecords
       \/ ReaderRejects
    /\ rows = << >>
    /\ headers = << >>
    /\ value_labels_dict = << >>
    /\ InitEncoderIdle
    /\ InitUiIdle
    /\ pc = "call"

\* process_sav(file_bytes) called on the reader's output
ProcessSav ==
    /\ pc = "call"
    /\ IF process_sav_raises(reader_ok, header, varLabels, valueLabels, records)
       THEN /\ pc' = "raised"
            /\ UNCHANGED resultVars
       ELSE /\ pc' = "returned"
            /\ rows' = ResolveRows(header, valueLabels, records)
            /\ headers' = final_headers(header, varLabels)
            /\ value_labels_dict' = value_labels(valueLabels)
    /\ UNCHANGED << readerVars, encoderVars, title_raises, uiVars >>

Next == ProcessSav

Spec == Init /\ [][Next]_vars

(***************************************************************************)
(* Properties of process_sav, stated on what the reader handed over and    *)
(* what was returned.                                                      *)
(***************************************************************************)
MaxOf(S) == CHOOSE m \in S : \A k \in S : k <= m

\* the short name of column i as text
ShortName(i) == decode_bytes(header[i])

\* the entries of a reader dict stored under a name, and the one that counts
EntriesUnder(d, name) == { k \in 1..Len(d) : decode_bytes(d[k][1]) = name }

HasEntry(d, name) == EntriesUnder(d, name) # {}

EntryUnder(d, name) == d[MaxOf(EntriesUnder(d, name))][2]

\* the text of the variable label of a name, empty when there is none
LabelText(name) ==
    IF HasEntry(varLabels, name) THEN decode_bytes(EntryUnder(varLabels, name)).v ELSE << >>

\* t is s without its leading and trailing whitespace
IsTrimOf(t, s) ==
    \E a \in 1..(Len(s) + 1), b \in 0..Len(s) :
        /\ t = SubSeq(s, a, b)
        /\ \A k \in 1..Len(s) : (k < a \/ k > b) => IsSpace(s[k])
        /\ t # << >> => (~IsSpace(t[1]) /\ ~IsSpace(t[Len(t)]))

Trims(s) == { SubSeq(s, a, b) : a \in 1..(Len(s) + 1), b \in 0..Len(s) }

\* C1: the header at position i is "name (label)" when the variable label
\* found under the decoded short name is non-empty after trimming, with the
\* trimmed label between the brackets, and is exactly the name otherwise.
C1_HeaderFormat ==
    pc = "returned" =>
        \A i \in 1..Len(header) :
            /\ i \in DOMAIN headers
            /\ \E t \in Trims(LabelText(ShortName(i))) :
                   /\ IsTrimOf(t, LabelText(ShortName(i)))
                   /\ headers[i] = IF t # << >>
                                   THEN PyStr(ShortName(i).v \o << 32, 40 >> \o t \o << 41 >>)
                                   ELSE ShortName(i)

\* a label with surrounding whitespace was trimmed into a header, and a
\* whitespace-only label left another header as the bare name
C1_Witness ==
    /\ pc = "returned"
    /\ \E i, k \in 1..Len(header) :
           /\ HasEntry(varLabels, ShortName(i))
           /\ LabelText(ShortName(i)) = << 32, 76, 32 >>
           /\ headers[i] = PyStr(ShortName(i).v \o << 32, 40, 76, 41 >>)
           /\ HasEntry(varLabels, ShortName(k))
           /\ LabelText(ShortName(k)) = << 32 >>
           /\ headers[k] = ShortName(k)

\* out is what some value-label entry for raw gives, or raw itself as text
CellFrom(out, raw) ==
    \/ out = decode_bytes(raw)
    \/ \E k \in 1..Len(valueLabels) : \E e \in 1..Len(valueLabels[k][2]) :
           /\ PyEq(valueLabels[k][2][e][1], raw)
           /\ out = decode_bytes(valueLabels[k][2][e][2])

\* C2: N records give N-1 rows; the first record is dropped whatever it
\* holds, and row j comes from record j+1, in order.
C2_FirstRecordDiscarded ==
    pc = "returned" =>
        /\ Len(rows) = Len(records) - 1
        /\ \A j \in 1..Len(rows) :
               /\ Len(rows[j]) = Len(records[j + 1])
               /\ \A i \in 1..Len(rows[j]) : CellFrom(rows[j][i], records[j + 1][i])

\* three records, the first of them data rather than the names, gave two
\* different rows
C2_Witness ==
    /\ pc = "returned"
    /\ Len(records) = 3
    /\ records[1] # header
    /\ records[1] # records[2]
    /\ Len(rows) = 2
    /\ rows[1] # rows[2]

\* the value-label table of column i, when the variable has one
HasTable(i) == HasEntry(valueLabels, ShortName(i))

TableOf(i) == EntryUnder(valueLabels, ShortName(i))

\* C3: a cell whose raw value is a key of its variable's value-label table
\* becomes the label text; any other cell stays the raw value, a byte
\* string decoded to text; a miss is never an error.
C3_ValueSubstitution ==
    /\ (reader_ok /\ pc # "call") => pc = "returned"
    /\ pc = "returned" =>
           \A j \in 1..(Len(records) - 1) : \A i \in 1..Len(header) :
               LET raw  == records[j + 1][i]
                   keys == IF HasTable(i)
                           THEN { e \in 1..Len(TableOf(i)) : PyEq(TableOf(i)[e][1], raw) }
                           ELSE {}
               IN /\ keys # {} =>
                         \A e \in keys : rows[j][i] = decode_bytes(TableOf(i)[e][2])
                  /\ keys = {} => rows[j][i] = decode_bytes(raw)

\* one row holds a substituted label and a decoded byte string of a variable
\* without a table, and another a code that missed its table
C3_Witness ==
    /\ pc = "returned"
    /\ \E j \in 1..Len(rows) : \E i, k \in 1..Len(header) :
           /\ HasTable(i)
           /\ records[j + 1][i] = PyFloat(1)
           /\ rows[j][i] = PyStr(<< 77 >>)
           /\ ~HasTable(k)
           /\ records[j + 1][k] = PyBytes(<< 120 >>)
           /\ rows[j][k] = PyStr(<< 120 >>)
    /\ \E j \in 1..Len(rows) : \E i \in 1..Len(header) :
           /\ HasTable(i)
           /\ TableOf(i) # << >>
           /\ records[j + 1][i] = PyBytes(<< 121, 255 >>)
           /\ rows[j][i] = PyStr(<< 121 >>)

IsPrefix(p, s) == Len(p) <= Len(s) /\ SubSeq(s, 1, Len(p)) = p

\* C4: the headers and every row are as long as the raw header, and
\* position i of each belongs to the variable of raw column i.
C4_ColumnsPreserved ==
    pc = "returned" =>
        /\ Len(headers) = Len(header)
        /\ \A i \in 1..Len(header) : IsPrefix(ShortName(i).v, headers[i].v)
        /\ \A j \in 1..Len(rows) :
               /\ Len(rows[j]) = Len(header)
               /\ \A i \in 1..Len(header) :
                      ~HasTable(i) => rows[j][i] = decode_bytes(records[j + 1][i])

\* two columns of different variables, different headers and different cells
C4_Witness ==
    /\ pc = "returned"
    /\ Len(header) >= 2
    /\ Len(rows) >= 1
    /\ headers[1] # headers[2]
    /\ ~HasTable(1) /\ ~HasTable(2)
    /\ rows[1][1] # rows[1][2]

\* C5 as stated: a cell that no key of the table equals in type and value
\* misses the table and is emitted raw.
C5_TypeMismatchMisses ==
    pc = "returned" =>
        \A j \in 1..(Len(records) - 1) : \A i \in 1..Len(header) :
            LET raw == records[j + 1][i]
            IN (HasTable(i) /\ \A e \in 1..Len(TableOf(i)) : TableOf(i)[e][1] # raw)
                   => rows[j][i] = decode_bytes(raw)

\* C5 amended: the lookup compares the raw, undecoded code as Python
\* compares dict keys.  A byte string never matches a text key (nor a text
\* cell a byte-string key), so the raw value is emitted; a number matches a
\* key of the same numeric value whether either is an int or a float, and
\* the label is emitted.
C5_RawKeyEquality ==
    pc = "returned" =>
        \A j \in 1..(Len(records) - 1) : \A i \in 1..Len(header) :
            LET raw == records[j + 1][i]
            IN HasTable(i) =>
                   /\ (~IsNum(raw) /\ \A e \in 1..Len(TableOf(i)) : TableOf(i)[e][1] # raw)
                          => rows[j][i] = decode_bytes(raw)
                   /\ IsNum(raw) =>
                          \A e \in 1..Len(TableOf(i)) :
                              (IsNum(TableOf(i)[e][1]) /\ TableOf(i)[e][1].v = raw.v)
                                  => rows[j][i] = decode_bytes(TableOf(i)[e][2])

\* a float code took the label of an int key, and a byte string whose text
\* equals a text key was emitted raw
C5_Witness ==
    /\ pc = "returned"
    /\ \E j \in 1..Len(rows) : \E i \in 1..Len(header) :
           /\ HasTable(i)
           /\ records[j + 1][i] = PyFloat(1)
           /\ \E e \in 1..Len(TableOf(i)) : TableOf(i)[e][1] = PyInt(1)
           /\ rows[j][i] = PyStr(<< 77 >>)
    /\ \E j \in 1..Len(rows) : \E i \in 1..Len(header) :
           /\ HasTable(i)
           /\ records[j + 1][i] = PyBytes(<< 121 >>)
           /\ \E e \in 1..Len(TableOf(i)) : TableOf(i)[e][1] = PyStr(<< 121 >>)
           /\ rows[j][i] = PyStr(<< 121 >>)

(***************************************************************************)
(* to_excel_bytes.  The workbook is openpyxl's: assigning ws.title raises  *)
(* ValueError on a character of \ * ? : / [ ] and never shortens the       *)
(* title (a title over 31 characters is kept with a warning, or raises     *)
(* ValueError in the builds that refuse it: title_raises); ws.append       *)
(* binds each value to a cell and raises on a value that is no number,     *)
(* text, bytes or None, on text holding a control character and on bytes   *)
(* that are not UTF-8.                                                     *)
(***************************************************************************)
MaxTitleLen == 31

InvalidTitleChars == { 92, 42, 63, 58, 47, 91, 93 }

IllegalChars == (0..8) \cup {11, 12} \cup (14..31)

HasCharIn(text, S) == \E k \in 1..Len(text) : text[k] \in S

\* ws.title = sheet_name raises
title_raises_for(name, refuses_long) ==
    \/ HasCharIn(name.v, InvalidTitleChars)
    \/ (Len(name.v) > MaxTitleLen /\ refuses_long)

\* strict UTF-8 decoding succeeds (one- and two-byte sequences)
RECURSIVE Utf8Valid(_)
Utf8Valid(b) ==
    IF b = << >> THEN TRUE
    ELSE IF b[1] < 128 THEN Utf8Valid(Tail(b))
    ELSE IF /\ b[1] >= 194 /\ b[1] <= 223 /\ Len(b) >= 2
            /\ b[2] >= 128 /\ b[2] <= 191
         THEN Utf8Valid(Tail(Tail(b)))
    ELSE FALSE

\* Cell(value=val) raises
cell_raises(val) ==
    \/ val.t \notin {"int", "float", "str", "bytes", "none"}
    \/ (val.t = "str" /\ HasCharIn(val.v, IllegalChars))
    \/ (val.t = "bytes" /\ (~Utf8Valid(val.v) \/ HasCharIn(Utf8Ignore(val.v), IllegalChars)))

\* the value the cell holds
bind_value(val) == IF val.t = "bytes" THEN PyStr(Utf8Ignore(val.v)) ELSE val

row_raises(r) == \E i \in 1..Len(r) : cell_raises(r[i])

\* ws_append with a fault: the new row goes above the rows already written.
ws_append_on_top(sheet, r) == << [i \in 1..Len(r) |-> bind_value(r[i])] >> \o sheet

\* ws.append(r): the row goes below the rows already written
ws_append(sheet, r) == Append(sheet, [i \in 1..Len(r) |-> bind_value(r[i])])

\* lines 141-143: the rows appended until one raises
RECURSIVE ws_fill(_, _)
ws_fill(sheet, rs) ==
    IF rs = << >> \/ row_raises(rs[1]) THEN sheet
    ELSE ws_fill(ws_append(sheet, rs[1]), Tail(rs))

to_excel_raises(hs, rs, name, refuses_long) ==
    \/ title_raises_for(name, refuses_long)
    \/ row_raises(hs)
    \/ \E k \in 1..Len(rs) : row_raises(rs[k])

\* the sheet title after line 140: a new workbook's sheet is called Sheet
ws_title_after(name, refuses_long) ==
    IF title_raises_for(name, refuses_long) THEN PyStr(<< 83, 104, 101, 101, 116 >>) ELSE name

\* the worksheet when to_excel_bytes returns or raises
ws_after(hs, rs, name, refuses_long) ==
    IF title_raises_for(name, refuses_long) THEN << >>
    ELSE ws_fill(<< >>, << hs >> \o rs)

\* wb.save(buf); buf.getvalue(): the workbook as saved
saved_bytes(title, sheet) == [saved |-> TRUE, title |-> title, sheet |-> sheet]

(***************************************************************************)
(* Arguments of to_excel_bytes.  D = 68, a = 97, t = 116, o = 111,         *)
(* s = 115, / = 47, ? = 63; code point 1 is a control character.           *)
(***************************************************************************)
Repeat(c, n) == [i \in 1..n |-> c]

SheetNames ==
    { PyStr(<< 68, 97, 116, 97 >>), PyStr(<< 68, 97, 116, 111, 115 >>),
      PyStr(<< 97, 47, 98 >>),
      PyStr(Repeat(68, MaxTitleLen)), PyStr(Repeat(68, MaxTitleLen + 1)),
      PyStr(<< 63 >> \o Repeat(68, MaxTitleLen + 1)) }

EncCellSeq ==
    << PyInt(1), PyStr(<< 120 >>), PyFloat(2), PyStr(<< 121 >>), PyNone,
       PyList(<< 1, 2 >>), PyStr(<< 120, 1 >>), PyBytes(<< 120 >>) >>

EncRowOpt(k, n) == [i \in 1..n |-> EncCellSeq[((k + i - 2) % Len(EncCellSeq)) + 1]]

EncRowOpts(n) == { EncRowOpt(k, n) : k \in 1..Len(EncCellSeq) }

\* header lists as process_sav builds them: A, B (L), ...
EncHeaders(n) ==
    [i \in 1..n |-> IF i % 2 = 1 THEN PyStr(<< 64 + i >>)
                    ELSE NameLabel(PyStr(<< 64 + i >>), PyStr(<< 76 >>))]

InitReaderIdle ==
    /\ reader_ok = TRUE
    /\ header = << >>
    /\ varLabels = << >>
    /\ valueLabels = << >>
    /\ records = << >>

InitEncode ==
    /\ InitReaderIdle
    /\ InitUiIdle
    /\ \E n \in 1..MaxCols :
           /\ headers = EncHeaders(n)
           /\ \E m \in 0..MaxRecords : rows \in [1..m -> EncRowOpts(n)]
    /\ value_labels_dict = << >>
    /\ sheet_name \in SheetNames
    /\ title_raises \in IF Len(sheet_name.v) > MaxTitleLen THEN BOOLEAN ELSE {FALSE}
    /\ ws_title = PyNone
    /\ ws = << >>
    /\ excel_bytes = [saved |-> FALSE, title |-> PyNone, sheet |-> << >>]
    /\ pc = "encode"

\* to_excel_bytes(headers, rows, sheet_name)
ToExcelBytes ==
    /\ pc = "encode"
    /\ ws_title' = ws_title_after(sheet_name, title_raises)
    /\ ws' = ws_after(headers, rows, sheet_name, title_raises)
    /\ IF to_excel_raises(headers, rows, sheet_name, title_raises)
       THEN /\ pc' = "encode_raised"
            /\ UNCHANGED excel_bytes
       ELSE /\ pc' = "encoded"
            /\ excel_bytes' = saved_bytes(ws_title', ws')
    /\ UNCHANGED << readerVars, resultVars, sheet_name, title_raises, uiVars >>

NextEncode == ToExcelBytes

SpecEncode == InitEncode /\ [][NextEncode]_vars

\* every value of the argument lists can be held by a cell
AllCellsFit ==
    /\ \A i \in 1..Len(headers) : ~cell_raises(headers[i])
    /\ \A k \in 1..Len(rows) : \A i \in 1..Len(rows[k]) : ~cell_raises(rows[k][i])

\* what a reader of the sheet finds for a value that was written
ReadsBackAs(cell, val) ==
    IF val.t = "bytes" THEN cell = decode_bytes(val) ELSE cell = val

\* C6: the saved sheet holds the headers as its first row, left to right,
\* then one row per input row in the input order and column order:
\* 1 + len(rows) rows in all.
C6_SheetLayout ==
    pc = "encoded" =>
        /\ excel_bytes.saved
        /\ Len(excel_bytes.sheet) = 1 + Len(rows)
        /\ excel_bytes.sheet[1] = headers
        /\ \A k \in 1..Len(rows) :
               /\ Len(excel_bytes.sheet[k + 1]) = Len(rows[k])
               /\ \A i \in 1..Len(rows[k]) :
                      ReadsBackAs(excel_bytes.sheet[k + 1][i], rows[k][i])

\* two different data rows under two different headers were saved
C6_Witness ==
    /\ pc = "encoded"
    /\ Len(headers) = 2
    /\ headers[1] # headers[2]
    /\ Len(rows) = 2
    /\ rows[1] # rows[2]
    /\ Len(excel_bytes.sheet) = 3

NameTooLongOrForbidden ==
    Len(sheet_name.v) > MaxTitleLen \/ HasCharIn(sheet_name.v, InvalidTitleChars)

\* C7: with a sheet name that is too long or holds a forbidden character
\* the encode still returns a buffer, whose sheet title fits the format.
C7_SheetNameSanitized ==
    (pc \in {"encoded", "encode_raised"} /\ NameTooLongOrForbidden /\ AllCellsFit) =>
        /\ pc = "encoded"
        /\ excel_bytes.saved
        /\ Len(excel_bytes.title.v) <= MaxTitleLen
        /\ ~HasCharIn(excel_bytes.title.v, InvalidTitleChars)

\* exactly the composite values are what no cell can hold
OnlyCompositesUnfit ==
    /\ \A i \in 1..Len(headers) : ~cell_raises(headers[i])
    /\ \A k \in 1..Len(rows) : \A i \in 1..Len(rows[k]) :
           cell_raises(rows[k][i]) => rows[k][i].t = "list"
    /\ \E k \in 1..Len(rows) : \E i \in 1..Len(rows[k]) : rows[k][i].t = "list"

\* C8: a value no cell can hold (a list) is written as text and the encode
\* completes with every row.
C8_UnsupportedCellCoerced ==
    (pc \in {"encoded", "encode_raised"} /\ ~NameTooLongOrForbidden /\ OnlyCompositesUnfit) =>
        /\ pc = "encoded"
        /\ excel_bytes.saved
        /\ Len(excel_bytes.sheet) = 1 + Len(rows)
        /\ \A k \in 1..Len(rows) : \A i \in 1..Len(rows[k]) :
               rows[k][i].t = "list" => excel_bytes.sheet[k + 1][i].t = "str"

(***************************************************************************)
(* main: one script run per user interaction.  The files a user can        *)
(* upload are given by what SavReader makes of them.                       *)
(***************************************************************************)
TwoNames == << PyBytes(<< 65 >>), PyBytes(<< 66 >>) >>

GoodFile ==
    [ ok |-> TRUE, header |-> TwoNames,
      varLabels |-> << << PyBytes(<< 65 >>), PyBytes(<< 32, 76, 32 >>) >> >>,
      valueLabels |-> << << PyBytes(<< 65 >>), << << PyFloat(1), PyBytes(<< 77 >>) >> >> >> >>,
      records |-> << TwoNames, RecordOpt(1, 2), RecordOpt(2, 2) >> ]

\* not an SPSS file: SavReader raises
BadFile ==
    [ ok |-> FALSE, header |-> << >>, varLabels |-> << >>, valueLabels |-> << >>,
      records |-> << >> ]

\* a string cell holds the control character 01
ControlCharFile ==
    [ ok |-> TRUE, header |-> TwoNames, varLabels |-> << >>, valueLabels |-> << >>,
      records |-> << TwoNames, << PyFloat(1), PyBytes(<< 120, 1 >>) >> >> ]

\* variables but no cases: the reader returns the names only
NoCasesFile ==
    [ ok |-> TRUE, header |-> TwoNames, varLabels |-> << >>, valueLabels |-> << >>,
      records |-> << TwoNames >> ]

Files == << GoodFile, BadFile, ControlCharFile, NoCasesFile >>

\* TEXTS[lang]["sheetname"]
TEXTS_sheetname(l) ==
    IF l = "es" THEN PyStr(<< 68, 97, 116, 111, 115 >>) ELSE PyStr(<< 68, 97, 116, 97 >>)

\* lang_after with a fault: the language follows the toggle position.
lang_from_toggle(l, toggle) == IF toggle THEN "en" ELSE "es"

\* lines 162-170: the language is set on the first run, and flipped when the
\* toggle widget returns True
lang_after(l, toggle) ==
    LET current == IF l = "unset" THEN "es" ELSE l
    IN IF toggle THEN (IF current = "es" THEN "en" ELSE "es") ELSE current

InitMain ==
    /\ InitReaderIdle
    /\ InitEncoderIdle
    /\ InitUiIdle
    /\ rows = << >>
    /\ headers = << >>
    /\ value_labels_dict = << >>
    /\ pc = "top"

\* the user changes a widget, which reruns the script
Interact ==
    /\ pc = "idle"
    /\ lang_toggle' \in BOOLEAN
    /\ show_preview' \in BOOLEAN
    /\ uploaded' \in 0..Len(Files)
    /\ pc' = "top"
    /\ UNCHANGED << readerVars, resultVars, encoderVars, title_raises, lang, page, runs >>

\* lines 154-190: the sidebar, the language and the uploader
MainTop ==
    /\ pc = "top"
    /\ lang' = lang_after(lang, lang_toggle)
    /\ runs' = (IF runs = << >> THEN << >> ELSE << runs[Len(runs)] >>)
                  \o << [ toggle |-> lang_toggle,
                          before |-> IF lang = "unset" THEN "es" ELSE lang,
                          after  |-> lang' ] >>
    /\ rows' = << >>
    /\ headers' = << >>
    /\ value_labels_dict' = << >>
    /\ excel_bytes' = [saved |-> FALSE, title |-> PyNone, sheet |-> << >>]
    /\ ws' = << >>
    /\ ws_title' = PyNone
    /\ sheet_name' = PyNone
    /\ header' = << >>
    /\ varLabels' = << >>
    /\ valueLabels' = << >>
    /\ records' = << >>
    /\ reader_ok' = TRUE
    /\ IF uploaded = 0
       THEN /\ page' = {"no_file"}
            /\ pc' = "idle"
       ELSE /\ page' = {}
            /\ pc' = "load"
    /\ UNCHANGED << title_raises, lang_toggle, show_preview, uploaded >>

\* lines 193-200: process_sav under try/except; st.stop() ends the run
MainLoad ==
    /\ pc = "load"
    /\ LET f == Files[uploaded]
       IN /\ reader_ok' = f.ok
          /\ header' = f.header
          /\ varLabels' = f.varLabels
          /\ valueLabels' = f.valueLabels
          /\ records' = f.records
          /\ IF process_sav_raises(f.ok, f.header, f.varLabels, f.valueLabels, f.records)
             THEN /\ page' = page \cup {"status_error"}
                  /\ pc' = "idle"
                  /\ UNCHANGED resultVars
             ELSE /\ page' = page \cup {"status_complete"}
                  /\ pc' = "info"
                  /\ rows' = ResolveRows(f.header, f.valueLabels, f.records)
                  /\ headers' = final_headers(f.header, f.varLabels)
                  /\ value_labels_dict' = value_labels(f.valueLabels)
    /\ UNCHANGED << encoderVars, title_raises, lang, lang_toggle, show_preview, uploaded, runs >>

\* lines 202-222: the metrics, the file line and the preview
MainInfo ==
    /\ pc = "info"
    /\ page' = page \cup {"metrics", "file_info"}
                    \cup (IF show_preview /\ rows # << >> THEN {"preview"} ELSE {})
    /\ pc' = "save"
    /\ UNCHANGED << readerVars, resultVars, encoderVars, title_raises,
                    lang, lang_toggle, show_preview, uploaded, runs >>

\* lines 224-235: to_excel_bytes, uncaught when it raises, then the download
MainSave ==
    /\ pc = "save"
    /\ sheet_name' = TEXTS_sheetname(lang)
    /\ ws_title' = ws_title_after(sheet_name', title_raises)
    /\ ws' = ws_after(headers, rows, sheet_name', title_raises)
    /\ IF to_excel_raises(headers, rows, sheet_name', title_raises)
       THEN /\ page' = page \cup {"exception"}
            /\ UNCHANGED excel_bytes
       ELSE /\ page' = page \cup {"success", "download"}
            /\ excel_bytes' = saved_bytes(ws_title', ws')
    /\ pc' = "idle"
    /\ UNCHANGED << readerVars, resultVars, title_raises,
                    lang, lang_toggle, show_preview, uploaded, runs >>

NextMain ==
    \/ Interact
    \/ MainTop
    \/ MainLoad
    \/ MainInfo
    \/ MainSave

SpecMain == InitMain /\ [][NextMain]_vars

\* C9: a request completes fully or fails fully: when process_sav or
\* to_excel_bytes raised, the run shows no metrics, preview or download,
\* and a download is offered only after both have succeeded.
C9_AllOrNothing ==
    /\ (page \cap {"status_error", "exception"} # {}) =>
           page \cap {"metrics", "file_info", "preview", "download"} = {}
    /\ "download" \in page => ("status_complete" \in page /\ excel_bytes.saved)

OtherLang(l) == IF l = "es" THEN "en" ELSE "es"

\* C10: the session language is 'es' or 'en' once a run has set it and 'es'
\* after the first run; a rerun changes it exactly when the toggle widget
\* is on, a rerun with the toggle on flips it, two consecutive reruns with
\* the toggle on give back the language from before them, and nothing else
\* in the run touches it.
C10_LanguageToggle ==
    /\ lang = "unset"
    /\ [](runs # << >> => lang \in {"es", "en"})
    /\ []((Len(runs) = 1 /\ ~runs[1].toggle) => lang = "es")
    /\ []((Len(runs) = 2 /\ runs[1].toggle /\ runs[2].toggle) =>
              (runs[2].before = runs[1].after /\ runs[2].after = runs[1].before))
    /\ [][ IF pc = "top"
           THEN LET before == IF lang = "unset" THEN "es" ELSE lang
                IN /\ (lang' # before) <=> lang_toggle
                   /\ lang_toggle => lang' = OtherLang(before)
           ELSE lang' = lang ]_vars

\* the toggle stayed on over two reruns and the language is Spanish again,
\* with the toggle on
C10_Witness ==
    /\ pc # "top"
    /\ Len(runs) = 2
    /\ runs[1].toggle /\ runs[2].toggle
    /\ lang_toggle
    /\ runs[1].before = "es"
    /\ lang = "es"

====
